---- MODULE Spec2Model ----
(***************************************************************************)
(* GadjetHubUz (src/app.py): a Flask application over an SQLite store.     *)
(* The model covers the four tables, the per-browser session cookie, the   *)
(* login_required guard and every route handler.  Text values are          *)
(* sequences of one-character strings so that str.strip(), len() and       *)
(* float() are computed rather than assumed.                               *)
(***************************************************************************)
EXTENDS Integers, Sequences, FiniteSets, TLC

\* ------------------------------------------------------------------ bounds
MaxTaskSeq  == 1   \* INSERTs into tasks over a whole run (AUTOINCREMENT never reuses an id)
MaxListSeq  == 1   \* INSERTs into listings over a whole run
MaxMessages == 1   \* rows the messages table may hold in the model

\* ----------------------------------------------------------- text helpers
Space == " "
Digits == {"0", "1", "2", "3", "4", "5", "6", "7", "8", "9"}

DigitVal(c) ==
    CASE c = "0" -> 0 [] c = "1" -> 1 [] c = "2" -> 2 [] c = "3" -> 3
      [] c = "4" -> 4 [] c = "5" -> 5 [] c = "6" -> 6 [] c = "7" -> 7
      [] c = "8" -> 8 [] c = "9" -> 9

\* str.strip(): leading and trailing whitespace removed
RECURSIVE LStrip(_)
LStrip(s) == IF s # <<>> /\ Head(s) = Space THEN LStrip(Tail(s)) ELSE s

RECURSIVE RStrip(_)
RStrip(s) ==
    IF s # <<>> /\ s[Len(s)] = Space THEN RStrip(SubSeq(s, 1, Len(s) - 1)) ELSE s

Strip(s) == RStrip(LStrip(s))

\* Python truthiness of a str: non-empty
Truthy(s) == s # <<>>

\* request.form.get(key, default)
FormGet(form, key, default) == IF key \in DOMAIN form THEN form[key] ELSE default

\* value of a non-empty run of decimal digits
RECURSIVE DigitsValue(_)
DigitsValue(s) ==
    IF s = <<>> THEN 0
    ELSE 10 * DigitsValue(SubSeq(s, 1, Len(s) - 1)) + DigitVal(s[Len(s)])

AllDigits(s) == s # <<>> /\ \A i \in 1..Len(s) : s[i] \in Digits

\* float(text) on text without '.', 'e' or '_': surrounding whitespace is
\* ignored, an optional sign is followed by digits, "nan", "inf" or "infinity";
\* anything else raises ValueError.
ParseFloat(text) ==
    LET t    == Strip(text)
        neg  == t # <<>> /\ Head(t) = "-"
        sgn  == t # <<>> /\ Head(t) \in {"-", "+"}
        body == IF sgn THEN Tail(t) ELSE t
    IN  IF AllDigits(body)
          THEN [ok |-> TRUE, kind |-> "num",
                val |-> IF neg THEN 0 - DigitsValue(body) ELSE DigitsValue(body)]
        ELSE IF body = <<"n", "a", "n">>
          THEN [ok |-> TRUE, kind |-> "nan", val |-> 0]
        ELSE IF body \in {<<"i", "n", "f">>, <<"i", "n", "f", "i", "n", "i", "t", "y">>}
          THEN [ok |-> TRUE, kind |-> "inf", val |-> IF neg THEN 0 - 1 ELSE 1]
        ELSE [ok |-> FALSE, kind |-> "ValueError", val |-> 0]

\* hashlib.sha256(password.encode()).hexdigest(): a deterministic digest with
\* no collisions on the passwords of the model; the digest of a text is never
\* the text itself.
hash_password(password) == <<"sha256">> \o password


\* ------------------------------------------------------------------ state
VARIABLES
    users,      \* table users: rows [id, username, email, password]
    tasks,      \* table tasks: rows [id, user_id, title, done]
    listings,   \* table listings: rows [id, user_id, title, description, price, listing_type]
    messages,   \* table messages: rows [id, name, email, message]
    taskSeq,    \* sqlite_sequence of tasks: the last id AUTOINCREMENT handed out
    listSeq,    \* sqlite_sequence of listings
    session,    \* per browser: the signed session cookie, a dict (<<>> when empty)
    pending,    \* per browser: a POST /register that validated and has not yet run its INSERT
    resp        \* the last response sent, with the request it answers

vars == <<users, tasks, listings, messages, taskSeq, listSeq, session, pending, resp>>
tables == <<users, tasks, listings, messages, taskSeq, listSeq>>

Sessions == {"s1", "s2"}

\* minimum password length accepted by register
MinPasswordLen == 6

\* ------------------------------------------------------------- responses
\* flash(message, category); arg is the text formatted into the message
NoFlash == [category |-> "", message |-> "", arg |-> <<>>]
Flash(category, message) == [category |-> category, message |-> message, arg |-> <<>>]

FlashLoginFirst   == Flash("warning", "Iltimos, avval tizimga kiring.")
FlashListingDone  == Flash("success", "E'lon muvaffaqiyatli joylashtirildi!")
FlashListingNeed  == Flash("danger", "Sarlavha va narx majburiy.")
FlashListingGone  == Flash("info", "E'lon o'chirildi.")
FlashAllFields    == Flash("danger", "Barcha maydonlar to'ldirilishi shart.")
FlashMismatch     == Flash("danger", "Parollar mos kelmayapti.")
FlashShort        == Flash("danger", "Parol kamida 6 ta belgidan iborat bo'lishi kerak.")
FlashRegistered   == Flash("success", "Ro'yxatdan muvaffaqiyatli o'tdingiz! Iltimos, tizimga kiring.")
FlashDuplicate    == Flash("danger", "Bu foydalanuvchi nomi yoki email allaqachon mavjud.")
FlashWelcome(username) ==
    [category |-> "success", message |-> "Xush kelibsiz, {username}!", arg |-> username]
FlashBadLogin     == Flash("danger", "Email yoki parol noto'g'ri.")
FlashLoggedOut    == Flash("info", "Tizimdan muvaffaqiyatli chiqdingiz.")
FlashTaskEmpty    == Flash("warning", "Vazifa matni bo'sh bo'lishi mumkin emas.")
FlashContactSent  == Flash("success", "Xabaringiz muvaffaqiyatli yuborildi!")
FlashContactNeed  == Flash("danger", "Iltimos, barcha maydonlarni to'ldiring.")

\* A response: what the request was (route, method, browser, path
\* argument), how it ended (status "redirect" | "render" | "fault", target the
\* endpoint redirected to or the template rendered or the exception raised),
\* the notice the request flashed (the cookie's queue of notices not yet shown
\* is left out), whether the route's own function body was entered
\* (ran), and the values handed to the template (rows, done_count).
Response(route, method, s, arg, status, target, flash, ran, rows, done_count) ==
    [route |-> route, method |-> method, sess |-> s, arg |-> arg,
     status |-> status, target |-> target, flash |-> flash, ran |-> ran,
     rows |-> rows, done_count |-> done_count]

Redirect(route, method, s, arg, target, flash, ran) ==
    Response(route, method, s, arg, "redirect", target, flash, ran, {}, 0)

Render(route, method, s, arg, template, flash, ran, rows, done_count) ==
    Response(route, method, s, arg, "render", template, flash, ran, rows, done_count)

\* an exception that no handler catches: Flask answers 500
Fault(route, method, s, arg, exception) ==
    Response(route, method, s, arg, "fault", exception, NoFlash, TRUE, {}, 0)

\* ------------------------------------------------------- session / guard
LoggedIn(s) == "user_id" \in DOMAIN session[s]

\* current_user(): the row of the session's user, as a set of at most one row
current_user(s) ==
    IF ~LoggedIn(s) THEN {}
    ELSE {u \in users : u.id = session[s].user_id}

\* a guard that lets every request through
login_required_open(s, route, method, arg, handler) == handler

\* login_required(fn): the wrapper built around a route function; handler is
\* the wrapped function's step
login_required(s, route, method, arg, handler) ==
    IF current_user(s) = {}
      THEN /\ resp' = Redirect(route, method, s, arg, "login", FlashLoginFirst, FALSE)
           /\ UNCHANGED <<tables, session, pending>>
      ELSE handler

Init ==
    /\ users = {}
    /\ tasks = {}
    /\ listings = {}
    /\ messages = {}
    /\ taskSeq = 0
    /\ listSeq = 0
    /\ session = [s \in Sessions |-> <<>>]
    /\ pending = [s \in Sessions |-> {}]
    /\ resp = Response("", "", "", 0, "", "", NoFlash, FALSE, {}, 0)


\* ------------------------------------------------------------ public pages
index(s) ==
    /\ resp' = Render("index", "GET", s, 0, "index.html", NoFlash, TRUE, {}, 0)
    /\ UNCHANGED <<tables, session, pending>>

about(s) ==
    /\ resp' = Render("about", "GET", s, 0, "about.html", NoFlash, TRUE, {}, 0)
    /\ UNCHANGED <<tables, session, pending>>

pricing(s) ==
    /\ resp' = Render("pricing", "GET", s, 0, "pricing.html", NoFlash, TRUE, {}, 0)
    /\ UNCHANGED <<tables, session, pending>>

contact(s, method, form) ==
    LET name    == Strip(FormGet(form, "name", <<>>))
        email   == Strip(FormGet(form, "email", <<>>))
        message == Strip(FormGet(form, "message", <<>>))
    IN  /\ IF method = "POST" /\ Truthy(name) /\ Truthy(email) /\ Truthy(message)
             THEN /\ Cardinality(messages) < MaxMessages
                  /\ messages' = messages \cup
                        {[id |-> Cardinality(messages) + 1, name |-> name,
                          email |-> email, message |-> message]}
                  /\ resp' = Redirect("contact", method, s, 0, "contact",
                                      FlashContactSent, TRUE)
             ELSE /\ messages' = messages
                  /\ resp' = Render("contact", method, s, 0, "contact.html",
                                    IF method = "POST" THEN FlashContactNeed ELSE NoFlash,
                                    TRUE, {}, 0)
        /\ UNCHANGED <<users, tasks, listings, taskSeq, listSeq, session, pending>>

\* --------------------------------------------------------------- register
\* users.email without its UNIQUE constraint
UniqueViolationNameOnly(username, email) ==
    \E u \in users : u.username = username

\* the UNIQUE constraints of users (username, email): would this INSERT
\* raise sqlite3.IntegrityError?
UniqueViolation(username, email) ==
    \E u \in users : u.username = username \/ u.email = email

\* the chain without its password != confirm branch
RegisterInvalidNoConfirm(form) ==
    LET username == Strip(FormGet(form, "username", <<>>))
        email    == Strip(FormGet(form, "email", <<>>))
        password == FormGet(form, "password", <<>>)
    IN  IF ~(Truthy(username) /\ Truthy(email) /\ Truthy(password)) THEN FlashAllFields
        ELSE IF Len(password) < MinPasswordLen THEN FlashShort
        ELSE NoFlash

\* the if/elif chain of register: the notice of the first failed constraint,
\* or NoFlash when the form passes
RegisterInvalid(form) ==
    LET username == Strip(FormGet(form, "username", <<>>))
        email    == Strip(FormGet(form, "email", <<>>))
        password == FormGet(form, "password", <<>>)
        confirm  == FormGet(form, "confirm_password", <<>>)
    IN  IF ~(Truthy(username) /\ Truthy(email) /\ Truthy(password)) THEN FlashAllFields
        ELSE IF password # confirm THEN FlashMismatch
        ELSE IF Len(password) < MinPasswordLen THEN FlashShort
        ELSE NoFlash

\* the try/except around the INSERT of register, and the response after it
RegisterInsert(s, form) ==
    LET username == Strip(FormGet(form, "username", <<>>))
        email    == Strip(FormGet(form, "email", <<>>))
        password == FormGet(form, "password", <<>>)
    IN  IF UniqueViolation(username, email)
          THEN /\ users' = users
               /\ resp' = Render("register", "POST", s, 0, "register.html",
                                 FlashDuplicate, TRUE, {}, 0)
          ELSE /\ users' = users \cup
                     {[id |-> Cardinality(users) + 1, username |-> username,
                       email |-> email, password |-> hash_password(password)]}
               /\ resp' = Redirect("register", "POST", s, 0, "login",
                                   FlashRegistered, TRUE)

\* GET/POST /register, the whole request in one step
register(s, method, form) ==
    /\ IF current_user(s) # {}
         THEN /\ resp' = Redirect("register", method, s, 0, "dashboard", NoFlash, TRUE)
              /\ users' = users
       ELSE IF method = "POST" /\ RegisterInvalid(form) = NoFlash
         THEN RegisterInsert(s, form)
       ELSE /\ resp' = Render("register", method, s, 0, "register.html",
                              IF method = "POST" THEN RegisterInvalid(form) ELSE NoFlash,
                              TRUE, {}, 0)
            /\ users' = users
    /\ UNCHANGED <<tasks, listings, messages, taskSeq, listSeq, session, pending>>

\* GET/POST /register up to, and not including, its INSERT: a POST that
\* passed every check waits in pending until its INSERT runs
register_begin(s, method, form) ==
    /\ pending[s] = {}
    /\ IF current_user(s) # {}
         THEN /\ resp' = Redirect("register", method, s, 0, "dashboard", NoFlash, TRUE)
              /\ pending' = pending
       ELSE IF method = "POST" /\ RegisterInvalid(form) = NoFlash
         THEN /\ pending' = [pending EXCEPT ![s] = {form}]
              /\ resp' = resp
       ELSE /\ resp' = Render("register", method, s, 0, "register.html",
                              IF method = "POST" THEN RegisterInvalid(form) ELSE NoFlash,
                              TRUE, {}, 0)
            /\ pending' = pending
    /\ UNCHANGED <<tables, session>>

\* the INSERT of a waiting POST /register and the response after it
register_insert(s) ==
    /\ \E form \in pending[s] : RegisterInsert(s, form)
    /\ pending' = [pending EXCEPT ![s] = {}]
    /\ UNCHANGED <<tasks, listings, messages, taskSeq, listSeq, session>>

\* ------------------------------------------------------------ login/logout
\* the query without its password condition
LoginMatchEmailOnly(email, digest) ==
    {u \in users : u.email = email}

\* SELECT * FROM users WHERE email = ? AND password = ?
LoginMatch(email, digest) ==
    {u \in users : u.email = email /\ u.password = digest}

login(s, method, form) ==
    LET email    == Strip(FormGet(form, "email", <<>>))
        password == FormGet(form, "password", <<>>)
        found    == LoginMatch(email, hash_password(password))
    IN  /\ IF current_user(s) # {}
             THEN /\ resp' = Redirect("login", method, s, 0, "dashboard", NoFlash, TRUE)
                  /\ session' = session
           ELSE IF method = "POST" /\ found # {}
             THEN \E user \in found :
                    /\ session' = [session EXCEPT ![s] = [user_id |-> user.id]]
                    /\ resp' = Redirect("login", method, s, 0, "dashboard",
                                        FlashWelcome(user.username), TRUE)
           ELSE /\ resp' = Render("login", method, s, 0, "login.html",
                                  IF method = "POST" THEN FlashBadLogin ELSE NoFlash,
                                  TRUE, {}, 0)
                /\ session' = session
        /\ UNCHANGED <<tables, pending>>

\* a logout that leaves the cookie as it is
logout_keep(s) ==
    /\ resp' = Redirect("logout", "GET", s, 0, "index", FlashLoggedOut, TRUE)
    /\ UNCHANGED <<tables, session, pending>>

logout(s) ==
    /\ session' = [session EXCEPT ![s] = <<>>]
    /\ resp' = Redirect("logout", "GET", s, 0, "index", FlashLoggedOut, TRUE)
    /\ UNCHANGED <<tables, pending>>


\* ------------------------------------------------------------- marketplace
\* SELECT l.*, u.username FROM listings l JOIN users u ON l.user_id = u.id
\* (the rows as a set: ORDER BY created_at is not modelled)
ListingRows ==
    {[id |-> l.id, user_id |-> l.user_id, title |-> l.title,
      description |-> l.description, price |-> l.price,
      listing_type |-> l.listing_type, username |-> u.username] :
        <<l, u>> \in {p \in listings \X users : p[1].user_id = p[2].id}}

\* the function body of marketplace
marketplace_body(s, method, form) ==
    LET title        == Strip(FormGet(form, "title", <<>>))
        description  == Strip(FormGet(form, "description", <<>>))
        \* request.form.get("price", 0): the default 0 is falsy, as is ""
        hasPrice     == "price" \in DOMAIN form /\ Truthy(form["price"])
        listing_type == FormGet(form, "listing_type", "sell")
        parsed       == ParseFloat(form["price"])
    IN  /\ IF method = "POST" /\ Truthy(title) /\ hasPrice
             THEN IF ~LoggedIn(s)
                    THEN /\ resp' = Fault("marketplace", method, s, 0, "KeyError")
                         /\ UNCHANGED <<listings, listSeq>>
                  ELSE IF ~parsed.ok
                    \* float(price) raises ValueError before the INSERT runs
                    THEN /\ resp' = Fault("marketplace", method, s, 0, "ValueError")
                         /\ UNCHANGED <<listings, listSeq>>
                  ELSE IF parsed.kind = "nan"
                    \* SQLite binds NaN as NULL: price REAL NOT NULL rejects the row
                    THEN /\ resp' = Fault("marketplace", method, s, 0, "IntegrityError")
                         /\ UNCHANGED <<listings, listSeq>>
                  ELSE /\ listSeq < MaxListSeq
                       /\ listSeq' = listSeq + 1
                       /\ listings' = listings \cup
                             {[id |-> listSeq + 1, user_id |-> session[s].user_id,
                               title |-> title, description |-> description,
                               price |-> [kind |-> parsed.kind, val |-> parsed.val],
                               listing_type |-> listing_type]}
                       /\ resp' = Redirect("marketplace", method, s, 0,
                                           "marketplace", FlashListingDone, TRUE)
             ELSE /\ resp' = Render("marketplace", method, s, 0, "marketplace.html",
                                    IF method = "POST" THEN FlashListingNeed ELSE NoFlash,
                                    TRUE, ListingRows, 0)
                  /\ UNCHANGED <<listings, listSeq>>
        /\ UNCHANGED <<users, tasks, messages, taskSeq, session, pending>>

marketplace(s, method, form) ==
    login_required(s, "marketplace", method, 0, marketplace_body(s, method, form))

\* the DELETE filtered by id alone
DeleteListingRowsById(rows, listing_id, user_id) ==
    {l \in rows : l.id # listing_id}

\* DELETE FROM listings WHERE id = ? AND user_id = ?
DeleteListingRows(rows, listing_id, user_id) ==
    {l \in rows : ~(l.id = listing_id /\ l.user_id = user_id)}

delete_listing_body(s, listing_id) ==
    /\ IF ~LoggedIn(s)
         THEN /\ resp' = Fault("delete_listing", "POST", s, listing_id, "KeyError")
              /\ listings' = listings
         ELSE /\ listings' = DeleteListingRows(listings, listing_id, session[s].user_id)
              /\ resp' = Redirect("delete_listing", "POST", s, listing_id,
                                  "marketplace", FlashListingGone, TRUE)
    /\ UNCHANGED <<users, tasks, messages, taskSeq, listSeq, session, pending>>

delete_listing(s, listing_id) ==
    login_required(s, "delete_listing", "POST", listing_id,
                   delete_listing_body(s, listing_id))

\* --------------------------------------------------------------- dashboard
\* the SELECT without its WHERE
TaskRowsAll(user_id) == tasks

\* SELECT * FROM tasks WHERE user_id = ?  (as a set: ORDER BY is not modelled)
TaskRows(user_id) == {t \in tasks : t.user_id = user_id}

\* sum(1 for t in tasks if t["done"])
DoneCount(rows) == Cardinality({t \in rows : t.done # 0})

dashboard_body(s) ==
    /\ IF ~LoggedIn(s)
         THEN resp' = Fault("dashboard", "GET", s, 0, "KeyError")
         ELSE resp' = Render("dashboard", "GET", s, 0, "dashboard.html", NoFlash, TRUE,
                             TaskRows(session[s].user_id),
                             DoneCount(TaskRows(session[s].user_id)))
    /\ UNCHANGED <<tables, session, pending>>

dashboard(s) == login_required(s, "dashboard", "GET", 0, dashboard_body(s))

add_task_body(s, form) ==
    LET title == Strip(FormGet(form, "title", <<>>))
    IN  /\ IF ~Truthy(title)
             THEN /\ resp' = Redirect("add_task", "POST", s, 0, "dashboard",
                                      FlashTaskEmpty, TRUE)
                  /\ UNCHANGED <<tasks, taskSeq>>
           ELSE IF ~LoggedIn(s)
             THEN /\ resp' = Fault("add_task", "POST", s, 0, "KeyError")
                  /\ UNCHANGED <<tasks, taskSeq>>
           ELSE /\ taskSeq < MaxTaskSeq
                /\ taskSeq' = taskSeq + 1
                \* done INTEGER DEFAULT 0
                /\ tasks' = tasks \cup
                      {[id |-> taskSeq + 1, user_id |-> session[s].user_id,
                        title |-> title, done |-> 0]}
                /\ resp' = Redirect("add_task", "POST", s, 0, "dashboard",
                                    NoFlash, TRUE)
        /\ UNCHANGED <<users, listings, messages, listSeq, session, pending>>

add_task(s, form) == login_required(s, "add_task", "POST", 0, add_task_body(s, form))

\* an UPDATE that sets done = 1 instead of flipping it
ToggleTaskRowsSet(rows, task_id, user_id) ==
    {IF t.id = task_id /\ t.user_id = user_id
       THEN [t EXCEPT !.done = 1] ELSE t : t \in rows}

\* UPDATE tasks SET done = 1 - done WHERE id = ? AND user_id = ?
ToggleTaskRows(rows, task_id, user_id) ==
    {IF t.id = task_id /\ t.user_id = user_id
       THEN [t EXCEPT !.done = 1 - t.done] ELSE t : t \in rows}

toggle_task_body(s, task_id) ==
    /\ IF ~LoggedIn(s)
         THEN /\ resp' = Fault("toggle_task", "POST", s, task_id, "KeyError")
              /\ tasks' = tasks
         ELSE /\ tasks' = ToggleTaskRows(tasks, task_id, session[s].user_id)
              /\ resp' = Redirect("toggle_task", "POST", s, task_id, "dashboard",
                                  NoFlash, TRUE)
    /\ UNCHANGED <<users, listings, messages, taskSeq, listSeq, session, pending>>

toggle_task(s, task_id) ==
    login_required(s, "toggle_task", "POST", task_id, toggle_task_body(s, task_id))

\* DELETE FROM tasks WHERE id = ? AND user_id = ?
DeleteTaskRows(rows, task_id, user_id) ==
    {t \in rows : ~(t.id = task_id /\ t.user_id = user_id)}

delete_task_body(s, task_id) ==
    /\ IF ~LoggedIn(s)
         THEN /\ resp' = Fault("delete_task", "POST", s, task_id, "KeyError")
              /\ tasks' = tasks
         ELSE /\ tasks' = DeleteTaskRows(tasks, task_id, session[s].user_id)
              /\ resp' = Redirect("delete_task", "POST", s, task_id, "dashboard",
                                  NoFlash, TRUE)
    /\ UNCHANGED <<users, listings, messages, taskSeq, listSeq, session, pending>>

delete_task(s, task_id) ==
    login_required(s, "delete_task", "POST", task_id, delete_task_body(s, task_id))

\* ------------------------------------------------------------------ inputs
Methods == {"GET", "POST"}

NameA  == <<"a">>
NameB  == <<"b">>
MailX  == <<"x">>
MailY  == <<"y">>
Pass1  == <<"s", "e", "c", "r", "e", "t">>
Pass2  == <<"S", "e", "c", "r", "e", "t">>
Short5 == <<"s", "e", "c", "r", "1">>

RegForm(u, e, p, c) == [username |-> u, email |-> e, password |-> p, confirm_password |-> c]

\* registration forms: every mix of two names (one also with a trailing
\* blank), two emails (one also with a leading blank) and two passwords,
\* matching or not, and forms with empty, missing or short fields
RegisterForms ==
    {<<>>}
      \cup [username : {NameA, <<"a", " ">>, NameB}, email : {MailX, <<" ", "x">>, MailY},
            password : {Pass1, Pass2}, confirm_password : {Pass1, Pass2}]
      \cup [username : {<<>>, <<" ">>, NameA}, email : {<<>>, MailX},
            password : {<<>>, Short5}, confirm_password : {<<>>, Short5}]
      \cup {[username |-> NameA, email |-> MailX, password |-> Pass1]}

LoginForms ==
    {<<>>} \cup [email : {<<>>, MailX, <<" ", "x">>, MailY},
                 password : {<<>>, Short5, Pass1, Pass2, <<"sha256">> \o Pass1}]

\* the forms of the specifications that are about tasks and listings: two
\* users can register and log in
FewRegisterForms == {<<>>, RegForm(NameA, MailX, Pass1, Pass1), RegForm(NameB, MailY, Pass1, Pass1)}
FewLoginForms ==
    {[email |-> MailX, password |-> Pass1], [email |-> MailY, password |-> Pass1],
     [email |-> MailX, password |-> Short5]}

\* the forms of the specification of racing registrations
RaceRegisterForms ==
    {<<>>, RegForm(NameA, MailX, Pass1, Pass2)}
      \cup {RegForm(u, e, Pass1, Pass1) : u \in {NameA, <<"a", " ">>, NameB}, e \in {MailX, MailY}}

TitleInputs == {<<>>, <<" ">>, <<"t">>}
PriceInputs == {<<>>, <<" ">>, <<"0">>, <<"5">>, <<"-", "5">>, <<"a", "b", "c">>,
                <<"n", "a", "n">>, <<"i", "n", "f">>}

TaskForms    == {<<>>} \cup [title : TitleInputs]
MarketForms  ==
    {<<>>} \cup [title : TitleInputs] \cup [title : TitleInputs, price : PriceInputs]
      \cup {[title |-> <<"t">>, price |-> <<"5">>, description |-> <<" ", "d">>,
             listing_type |-> "buy"]}
FewMarketForms ==
    {<<>>, [title |-> <<"t">>, price |-> <<" ", "5">>, description |-> <<" ", "d">>,
            listing_type |-> "buy"]}
ContactForms ==
    {<<>>} \cup [name : {<<>>, <<"n">>}, email : {<<>>, <<"x">>}, message : {<<" ">>, <<"m">>}]

TaskIds    == 1..(MaxTaskSeq + 1)
ListingIds == 1..(MaxListSeq + 1)

\* ---------------------------------------------------------- specifications
\* Spec: every route, each request handled in one step, one browser that
\* registers, logs in and out as either of two users
Browser == {"s1"}

Next ==
    \/ \E s \in Browser : index(s)
    \/ \E s \in Browser : about(s)
    \/ \E s \in Browser : pricing(s)
    \/ \E s \in Browser, m \in Methods, f \in ContactForms : contact(s, m, f)
    \/ \E s \in Browser, m \in Methods, f \in FewRegisterForms : register(s, m, f)
    \/ \E s \in Browser, m \in Methods, f \in FewLoginForms : login(s, m, f)
    \/ \E s \in Browser : logout(s)
    \/ \E s \in Browser, m \in Methods, f \in FewMarketForms : marketplace(s, m, f)
    \/ \E s \in Browser, i \in ListingIds : delete_listing(s, i)
    \/ \E s \in Browser : dashboard(s)
    \/ \E s \in Browser, f \in TaskForms : add_task(s, f)
    \/ \E s \in Browser, i \in TaskIds : toggle_task(s, i)
    \/ \E s \in Browser, i \in TaskIds : delete_task(s, i)

Spec == Init /\ [][Next]_vars

\* SpecAuth: registration, login and logout from two browsers, with one
\* guarded page
NextAuth ==
    \/ \E s \in Sessions, m \in Methods, f \in RegisterForms : register(s, m, f)
    \/ \E s \in Sessions, m \in Methods, f \in LoginForms : login(s, m, f)
    \/ \E s \in Sessions : logout(s)
    \/ \E s \in Sessions : dashboard(s)

SpecAuth == Init /\ [][NextAuth]_vars

\* SpecRace: registrations of two browsers interleaved at their INSERT
NextRace ==
    \/ \E s \in Sessions, m \in Methods, f \in RaceRegisterForms : register_begin(s, m, f)
    \/ \E s \in Sessions : register_insert(s)
    \/ \E s \in Sessions, m \in Methods, f \in FewLoginForms : login(s, m, f)
    \/ \E s \in Sessions : logout(s)

SpecRace == Init /\ [][NextRace]_vars

\* SpecTasks: the to-do list of two users in two browsers
NextTasks ==
    \/ \E s \in Sessions, m \in Methods, f \in FewRegisterForms : register(s, m, f)
    \/ \E s \in Sessions, m \in Methods, f \in FewLoginForms : login(s, m, f)
    \/ \E s \in Sessions : logout(s)
    \/ \E s \in Sessions : dashboard(s)
    \/ \E s \in Sessions, f \in TaskForms : add_task(s, f)
    \/ \E s \in Sessions, i \in TaskIds : toggle_task(s, i)
    \/ \E s \in Sessions, i \in TaskIds : delete_task(s, i)

SpecTasks == Init /\ [][NextTasks]_vars

\* SpecMarket: the listings board of two users in two browsers, with every
\* kind of submitted price
NextMarket ==
    \/ \E s \in Sessions, m \in Methods, f \in FewRegisterForms : register(s, m, f)
    \/ \E s \in Sessions, m \in Methods, f \in FewLoginForms : login(s, m, f)
    \/ \E s \in Sessions : logout(s)
    \/ \E s \in Sessions, m \in Methods, f \in MarketForms : marketplace(s, m, f)
    \/ \E s \in Sessions, i \in ListingIds : delete_listing(s, i)

SpecMarket == Init /\ [][NextMarket]_vars


\* ------------------------------------------------------------------ claims
GuardedRoutes ==
    {"marketplace", "delete_listing", "dashboard", "add_task", "toggle_task", "delete_task"}

\* C1: a task toggle, task delete or listing delete by a logged-in identity
\* is answered with the same redirect and notice whether or not the identity
\* owns the target, and when it does not own it (or the row does not exist)
\* the users, tasks and listings tables are left as they were.
C1_NonOwnerNoOp ==
    [][LET r == resp'
       IN  (r.route \in {"toggle_task", "delete_task", "delete_listing"}
              /\ current_user(r.sess) # {}) =>
             LET uid  == session[r.sess].user_id
                 owns == IF r.route = "delete_listing"
                           THEN \E l \in listings : l.id = r.arg /\ l.user_id = uid
                           ELSE \E t \in tasks : t.id = r.arg /\ t.user_id = uid
             IN  /\ r.status = "redirect"
                 /\ r.target = (IF r.route = "delete_listing" THEN "marketplace"
                                ELSE "dashboard")
                 /\ r.flash = (IF r.route = "delete_listing" THEN FlashListingGone
                               ELSE NoFlash)
                 /\ ~owns => <<users, tasks, listings>>' = <<users, tasks, listings>>
      ]_vars

\* a listing delete was just requested by a logged-in user who does not own
\* the listing, which is still stored
C1_Witness ==
    /\ resp.route = "delete_listing"
    /\ resp.ran
    /\ \E l \in listings : l.id = resp.arg /\ l.user_id # session[resp.sess].user_id

\* C2: on a guarded route a request whose session resolves to no user is
\* redirected to login with the warning notice, the route function is not
\* entered and no table changes; with a resolved user the function is entered.
C2_GuardBlocks ==
    [][LET r == resp'
       IN  r.route \in GuardedRoutes =>
             IF current_user(r.sess) = {}
               THEN /\ r.status = "redirect"
                    /\ r.target = "login"
                    /\ r.flash = FlashLoginFirst
                    /\ ~r.ran
                    /\ tables' = tables
               ELSE r.ran
      ]_vars

\* a task add, toggle or delete was just refused for a browser without an
\* identity while a task is stored
C2_Witness ==
    /\ resp.route \in {"add_task", "toggle_task", "delete_task"}
    /\ ~resp.ran
    /\ resp.target = "login"
    /\ ~LoggedIn(resp.sess)
    /\ tasks # {}

\* no two users rows share a username or an email
C3_UsersUnique ==
    \A u, v \in users : (u.username = v.username \/ u.email = v.email) => u = v

\* what one step may do to users: rows are only added, and only by the INSERT
\* of a waiting registration
C3_InsertStep ==
    /\ users \subseteq users'
    /\ users' # users => \E s \in Sessions : pending[s] # {} /\ pending'[s] = {}
    /\ \A s \in Sessions :
         (pending[s] # {} /\ pending'[s] = {}) =>
           \E f \in pending[s] :
             LET un == Strip(f.username)
                 em == Strip(f.email)
             IN  IF \E u \in users : u.username = un \/ u.email = em
                   THEN /\ users' = users
                        /\ resp'.sess = s
                        /\ resp'.status = "render"
                        /\ resp'.flash = FlashDuplicate
                   ELSE /\ \E u \in users' \ users :
                             /\ users' = users \cup {u}
                             /\ u.username = un
                             /\ u.email = em
                        /\ resp'.sess = s
                        /\ resp'.flash = FlashRegistered

\* C3: no two users rows share a username or an email; rows are only added,
\* one at a time, by the INSERT of a registration; an INSERT whose (trimmed)
\* username or email is already stored adds nothing and is answered with
\* the duplicate notice, and otherwise adds exactly the submitted row.
C3_NoDuplicateUsers == [] C3_UsersUnique /\ [][C3_InsertStep]_vars

\* one browser's registration has been stored while another browser's
\* registration for the same username is still waiting for its INSERT
C3_Witness ==
    \E s \in Sessions :
      /\ resp.sess # s
      /\ resp.flash = FlashRegistered
      /\ \E f \in pending[s], u \in users : u.username = Strip(f.username)

\* C4 (as amended): a POST /login from a browser without an identity
\* establishes an identity iff a users row has the submitted email, trimmed
\* of surrounding blanks, and a stored digest equal to the digest of the
\* submitted password; the identity is that row's id; otherwise the session
\* is unchanged.
C4_LoginIff ==
    [][\A s \in Sessions, f \in LoginForms :
         (resp'.route = "login" /\ resp'.sess = s /\ ~LoggedIn(s) /\ login(s, "POST", f)) =>
           LET em    == Strip(FormGet(f, "email", <<>>))
               pw    == FormGet(f, "password", <<>>)
               match == {u \in users : u.email = em /\ u.password = hash_password(pw)}
           IN  IF match # {}
                 THEN \E u \in match : session' = [session EXCEPT ![s] = [user_id |-> u.id]]
                 ELSE session' = session
      ]_vars

\* C4 as stated: the row is looked up by the email exactly as submitted
C4_LoginIffAsSubmitted ==
    [][\A s \in Sessions, f \in LoginForms :
         (resp'.route = "login" /\ resp'.sess = s /\ ~LoggedIn(s) /\ login(s, "POST", f)) =>
           LET em    == FormGet(f, "email", <<>>)
               pw    == FormGet(f, "password", <<>>)
               match == {u \in users : u.email = em /\ u.password = hash_password(pw)}
           IN  IF match # {}
                 THEN \E u \in match : session' = [session EXCEPT ![s] = [user_id |-> u.id]]
                 ELSE session' = session
      ]_vars

\* a login just succeeded as a user while another user with another
\* password is stored
C4_Witness ==
    /\ resp.route = "login"
    /\ resp.flash.category = "success"
    /\ LoggedIn(resp.sess)
    /\ \E u, v \in users :
         u.id = session[resp.sess].user_id /\ v.id # u.id /\ v.password # u.password

\* the constraints of C5 on a registration form, as the claim words them
C5_Bad(f) ==
    LET username == FormGet(f, "username", <<>>)
        email    == FormGet(f, "email", <<>>)
        password == FormGet(f, "password", <<>>)
        confirm  == FormGet(f, "confirm_password", <<>>)
    IN  \/ username = <<>>
        \/ email = <<>>
        \/ password = <<>>
        \/ password # confirm
        \/ Len(password) < 6

\* C5: a registration whose username, email or password is empty, whose
\* password differs from its confirmation or is shorter than 6 characters
\* changes no table (stated as: no step that changes a table is such a
\* registration); a users row appears only by a POST /register whose form
\* meets all of these constraints.
C5_InvalidRegistration ==
    [][/\ tables' # tables =>
            \A s \in Sessions, m \in Methods, f \in RegisterForms :
               C5_Bad(f) => ~register(s, m, f)
       /\ users' # users =>
            \E s \in Sessions, f \in RegisterForms :
               register(s, "POST", f) /\ ~C5_Bad(f)
      ]_vars

\* a registration was just refused for mismatched passwords while a user is
\* stored
C5_Witness ==
    /\ resp.route = "register"
    /\ resp.flash = FlashMismatch
    /\ users # {}

\* C6: every stored listing has a price that is a number and is not negative.
C6_PricesValid ==
    \A l \in listings : l.price.kind = "num" /\ l.price.val >= 0

\* C7: no request ends in an unhandled exception.
C7_NoFault == resp.status # "fault"

\* C8: the dashboard hands the template exactly the tasks owned by the
\* requesting identity, with done_count the number of them that are done; a
\* GET of the marketplace hands the template every stored listing.
C8_ScopedReads ==
    /\ (resp.route = "dashboard" /\ resp.ran) =>
         /\ resp.status = "render"
         /\ \A t \in tasks : t \in resp.rows <=> t.user_id = session[resp.sess].user_id
         /\ resp.rows \subseteq tasks
         /\ resp.done_count = Cardinality({t \in resp.rows : t.done = 1})
    /\ (resp.route = "marketplace" /\ resp.method = "GET" /\ resp.ran) =>
         /\ resp.status = "render"
         /\ {[id |-> r.id, user_id |-> r.user_id, title |-> r.title,
              description |-> r.description, price |-> r.price,
              listing_type |-> r.listing_type] : r \in resp.rows} = listings
         /\ \A r \in resp.rows : \E u \in users : u.id = r.user_id /\ u.username = r.username

\* the dashboard was just shown to a user while a task of another user is
\* stored
C8_Witness ==
    /\ resp.route = "dashboard"
    /\ resp.ran
    /\ \E t \in tasks : t.user_id # session[resp.sess].user_id

\* done is 0 (pending) or 1 (done)
C9_DoneValues == \A t \in tasks : t.done \in {0, 1}

\* the UPDATE of toggle_task applied twice as the owner gives back the table
C9_TwiceIsIdentity ==
    \A t \in tasks :
      ToggleTaskRows(ToggleTaskRows(tasks, t.id, t.user_id), t.id, t.user_id) = tasks

\* what one step may do to done flags
C9_Step ==
    /\ \A n \in tasks' :
         IF \E t \in tasks : t.id = n.id
           THEN \A t \in tasks :
                  (t.id = n.id /\ t.done # n.done) =>
                     /\ resp'.route = "toggle_task"
                     /\ resp'.arg = t.id
                     /\ LoggedIn(resp'.sess)
                     /\ session[resp'.sess].user_id = t.user_id
                     /\ n.done = 1 - t.done
           ELSE n.done = 0
    /\ (resp'.route = "toggle_task" /\ resp'.ran) =>
         \A t \in tasks :
           (t.id = resp'.arg /\ t.user_id = session[resp'.sess].user_id) =>
              \E n \in tasks' : n.id = t.id /\ n.done = 1 - t.done

\* C9: done is 0 or 1; a new task has done = 0; the done flag of a stored
\* task changes only by a toggle of that task requested by its owner, which
\* makes it 1 - done; toggling a task twice as its owner gives back the
\* tasks table.
C9_ToggleInvolution == [] C9_DoneValues /\ [] C9_TwiceIsIdentity /\ [][C9_Step]_vars

\* the owner's toggle just took a task from done back to pending: the task
\* was created pending and has been toggled twice
C9_Witness ==
    /\ resp.route = "toggle_task"
    /\ resp.ran
    /\ \E t \in tasks :
         t.id = resp.arg /\ t.user_id = session[resp.sess].user_id /\ t.done = 0

\* C10: a logout leaves its browser without an identity and changes no
\* table; a browser without an identity gets one only by its own successful
\* POST /login; until then its requests on guarded routes are redirected to
\* login and change no table.
C10_LogoutSticks ==
    [][/\ resp'.route = "logout" =>
            /\ "user_id" \notin DOMAIN session'[resp'.sess]
            /\ resp'.status = "redirect"
            /\ tables' = tables
       /\ \A s \in Sessions :
            ~LoggedIn(s) =>
              /\ LoggedIn(s)' =>
                   /\ resp'.route = "login"
                   /\ resp'.method = "POST"
                   /\ resp'.sess = s
                   /\ resp'.flash.category = "success"
              /\ (resp'.sess = s /\ resp'.route \in GuardedRoutes) =>
                   /\ resp'.target = "login"
                   /\ ~resp'.ran
                   /\ tables' = tables
      ]_vars

\* a browser just logged out, after which a task is stored and the other
\* browser is still logged in
C10_Witness ==
    /\ resp.route = "logout"
    /\ ~LoggedIn(resp.sess)
    /\ tasks # {}
    /\ \E s \in Sessions : LoggedIn(s)

====
